---- MODULE Spec2Model ----
(***************************************************************************)
(* ics2radicale: synchronisation of a remote calendar feed into a local    *)
(* per-event file store.  The model follows src/ics2radicale/import_ics.py *)
(* (apply_operator, filter_event, process_event, process_cal, Config,      *)
(* main), src/ics2radicale/merge_events.py (unpack_value, MergeStrategy)   *)
(* and src/cache.py (JSONCache).                                           *)
(*                                                                         *)
(* One event identity (UID) is followed.  An Event is a function from the  *)
(* property names it carries to property values; a property value is a     *)
(* pair <<kind, payload>> so that the wrapper types of the icalendar       *)
(* library (vText, vDDDTypes), plain str, datetime and Python's None stay  *)
(* distinguishable and unpack_value is a real conversion:                  *)
(*    <<"None", 0>>        Python None (what Event.get gives for a         *)
(*                         missing property)                               *)
(*    <<"vText", n>>       icalendar text n                                *)
(*    <<"str", n>>         plain Python str n                              *)
(*    <<"vDDDTypes", t>>   icalendar date-time t                           *)
(*    <<"datetime", t>>    Python datetime t                               *)
(* A text payload n >= 1 is the text of n letters "a", payload 0 is the     *)
(* text "None", a negative payload -n is the text n followed by a          *)
(* carriage return, and payload Paren is the text "(" (see Chars).         *)
(***************************************************************************)
EXTENDS Integers, Sequences, FiniteSets, TLC

VARIABLES
    store,        \* the file <uid>.ics of the calendar folder: an Event, or NoFile
    cache,        \* the cached ancestor snapshot of the UID: an Event, or NoFile
    upstream,     \* the VEVENT the feed currently delivers for the UID
    strategy,     \* MergeStrategy.strategy of the project
    filter_list,  \* the project's filter rules, in order
    clock,        \* the last value datetime.now() returned
    outcome,      \* how the last process_event run ended
    result,       \* the value returned by the function under test (pure specifications)
    userVal,      \* history: per property, the value the user gave it while the
                  \* feed held the value last written, kept by the feed since
    upKept,       \* history: per property, the feed has kept it since the last write
    operand1,     \* apply_operator: the argument value1
    operand2,     \* apply_operator: the argument value2
    op,           \* apply_operator: the argument operator
    feed,         \* process_cal: calendar.subcomponents, the VEVENTs of the feed
    pos,          \* process_cal: index of the next component of the loop of line 155
    folder,       \* process_cal: per UID, the file <uid>.ics of the folder
    project_cache,\* process_cal: per UID, the cached snapshot
    raised,       \* the exception that left process_cal or main ("none": none)
    conf,         \* Config: the strategy strings of the configured projects, in order
    pc,           \* main: "config", "main", "done" or "raised"
    projects,     \* Config.projects: the strategies of the projects loaded so far
    synced        \* main: the projects process_cal was called for

syncvars == <<store, cache, upstream, strategy, filter_list, clock, outcome, result,
              userVal, upKept>>
opvars == <<operand1, operand2, op>>
calvars == <<feed, pos, folder, project_cache>>
confvars == <<conf, pc, projects, synced>>

vars == <<syncvars, opvars, calvars, raised, confvars>>

----------------------------------------------------------------------------
(* Bounds *)

NumVals == 2      \* number of ordinary text values
MaxNow == 2       \* number of datetime.now() calls followed
MaxRules == 2     \* longest filter list
MaxProjects == 3  \* most projects of a configuration

----------------------------------------------------------------------------
(* Values and events *)

None == <<"None", 0>>
vText(n) == <<"vText", n>>
str(n) == <<"str", n>>
vDDDTypes(t) == <<"vDDDTypes", t>>
datetime(t) == <<"datetime", t>>

Texts == 1..NumVals
CRText(n) == 0 - n

\* The payload of the text "(", which is no regular expression.
Paren == NumVals + 3

\* The characters of the text with payload n.
Chars(n) ==
    IF n = Paren THEN <<"(">>
    ELSE IF n > 0 THEN [i \in 1..n |-> "a"]
    ELSE IF n = 0 THEN <<"N", "o", "n", "e">>
    ELSE [i \in 1..(0 - n) |-> "a"] \o <<"\r">>

IsText(v) == v[1] \in {"vText", "str"}

TextProps == {"SUMMARY", "LOCATION"}

\* Event.get(prop): the property, or None when the event does not carry it.
Get(e, k) == IF k \in DOMAIN e THEN e[k] ELSE None

\* The parsed VEVENTs of the followed UID that carry properties among P: text
\* properties with payloads in T, LAST-MODIFIED with a stamp in S.
EventsOver(P, T, S) ==
    UNION { { e \in [{"UID"} \cup D -> {vText(n) : n \in T \cup {1}}
                                        \cup {vDDDTypes(t) : t \in S}] :
                /\ e["UID"] = vText(1)
                /\ \A k \in D : IF k = "LAST-MODIFIED" THEN e[k][1] = "vDDDTypes"
                                ELSE e[k][1] = "vText" /\ e[k][2] \in T } :
            D \in SUBSET (P \ {"UID"}) }

\* What exists on disk or in the cache when nothing is stored for the UID.
NoFile == [k \in {"NOFILE"} |-> None]

\* The Python value None returned in place of an Event.
NoEvent == [k \in {"NONE"} |-> None]

\* unpack_value on a property value (lines 11-23): the wrapper's content.
unpack_value(v) ==
    CASE v[1] = "vDDDTypes" -> datetime(v[2])
      [] v[1] = "vText" -> str(v[2])
      [] OTHER -> v

\* unpack_value on an Event (line 16): the dict of its unpacked properties.
unpack_event(e) == [k \in DOMAIN e |-> unpack_value(e[k])]

\* Event == Event of the library: same properties, equal values (a vText is a
\* str, a vDDDTypes equals another with the same dt).
EventEq(a, b) == unpack_event(a) = unpack_event(b)

----------------------------------------------------------------------------
(* merge_events.py: MergeStrategy *)

Strategies == {"OUR", "UPSTREAM", "NEWER", "MERGE_OUR", "MERGE_UPSTREAM"}

\* TakeIfPresent without the test "prop in": the property is always assigned,
\* with the None that Event.get gives for a missing property.
TakeIfPresent_Unguarded(ev, prop) == [kind |-> "set", val |-> Get(ev, prop)]

\* TakeIfPresent with the test inverted.
TakeIfPresent_Inverted(ev, prop) ==
    IF prop \notin DOMAIN ev THEN [kind |-> "set", val |-> Get(ev, prop)]
    ELSE [kind |-> "skip", val |-> None]

\* Lines 85-86 and 88-89: the changed side's property is taken when that side
\* carries it and left out of merged_event when it does not.
TakeIfPresent(ev, prop) ==
    IF prop \in DOMAIN ev THEN [kind |-> "set", val |-> ev[prop]]
    ELSE [kind |-> "skip", val |-> None]

\* Lines 94-113: a conflict is settled by the strategy; without a merge
\* strategy NotImplementedError is raised.
ResolveConflict(strat, local_prop, upstream_prop) ==
    IF strat = "MERGE_UPSTREAM" THEN [kind |-> "set", val |-> upstream_prop]
    ELSE IF strat = "MERGE_OUR" THEN [kind |-> "set", val |-> local_prop]
    ELSE [kind |-> "raise", val |-> None]

\* One iteration of the loop of __merge_events__ (lines 70-113) for prop:
\* what it does to merged_event.  kind "set": merged_event[prop] = val;
\* "skip": the property is left out; "raise": NotImplementedError.
MergeProp(strat, base_event, local, upstream_ev, prop, now) ==
    LET local_prop == Get(local, prop)
        local_val == unpack_value(local_prop)
        upstream_prop == Get(upstream_ev, prop)
        upstream_val == unpack_value(upstream_prop)
        base_prop == Get(base_event, prop)
        base_val == unpack_value(base_prop)
    IN  IF prop = "LAST-MODIFIED"
          THEN [kind |-> "set", val |-> vDDDTypes(now)]
        ELSE IF local_val = upstream_val /\ upstream_val = base_val
          THEN [kind |-> "set", val |-> base_prop]
        ELSE IF local_val = upstream_val
          THEN [kind |-> "set", val |-> local_prop]
        ELSE IF local_val = base_val
          THEN TakeIfPresent(upstream_ev, prop)
        ELSE IF upstream_val = base_val
          THEN TakeIfPresent(local, prop)
        ELSE IF prop \notin DOMAIN local
          THEN [kind |-> "set", val |-> upstream_prop]
        ELSE IF prop \notin DOMAIN upstream_ev
          THEN [kind |-> "set", val |-> local_prop]
        ELSE ResolveConflict(strat, local_prop, upstream_prop)

\* MergeStrategy.__merge_events__ (lines 57-114).  exc is the exception that
\* leaves the call ("none": it returns ev).
merge_events(strat, base_event, local, upstream_ev, now) ==
    IF unpack_event(base_event) = unpack_event(local)
         /\ unpack_event(local) = unpack_event(upstream_ev)
      THEN [exc |-> "none", ev |-> base_event]
    ELSE
      LET all_keys == DOMAIN base_event \cup DOMAIN local \cup DOMAIN upstream_ev
          step(prop) == MergeProp(strat, base_event, local, upstream_ev, prop, now)
      IN  IF \E prop \in all_keys : step(prop).kind = "raise"
            THEN [exc |-> "NotImplementedError", ev |-> NoEvent]
            ELSE [exc |-> "none",
                  ev |-> [prop \in {p \in all_keys : step(p).kind = "set"} |->
                            step(prop).val]]

\* MergeStrategy.__select_newer_event__ (lines 50-55): our["LAST-MODIFIED"] is
\* compared with upstream["LAST_MODIFIED"]; a missing key raises KeyError.
select_newer_event(our, upstream_ev) ==
    IF "LAST-MODIFIED" \notin DOMAIN our \/ "LAST_MODIFIED" \notin DOMAIN upstream_ev
      THEN [exc |-> "KeyError", ev |-> NoEvent]
    ELSE IF our["LAST-MODIFIED"][2] < upstream_ev["LAST_MODIFIED"][2]
      THEN [exc |-> "none", ev |-> upstream_ev]
      ELSE [exc |-> "none", ev |-> our]

\* MergeStrategy.apply (lines 116-135).
apply(strat, upstream_ev, existing, original_version, now) ==
    IF strat = "OUR" THEN [exc |-> "none", ev |-> NoEvent]
    ELSE IF strat = "UPSTREAM" THEN [exc |-> "none", ev |-> upstream_ev]
    ELSE IF strat = "NEWER" THEN select_newer_event(existing, upstream_ev)
    ELSE IF strat \in {"MERGE_UPSTREAM", "MERGE_OUR"}
      THEN merge_events(strat, original_version, existing, upstream_ev, now)
    ELSE [exc |-> "NotImplementedError", ev |-> NoEvent]

----------------------------------------------------------------------------
(* import_ics.py: the filter *)

IsPrefix(p, s) == Len(p) <= Len(s) /\ SubSeq(s, 1, Len(p)) = p

IsSubstring(a, b) ==
    \E i \in 0..Len(b) : i + Len(a) <= Len(b) /\ SubSeq(b, i + 1, i + Len(a)) = a

\* Python's value1 == value2 on the values a rule literal and a property hold.
PyEq(value1, value2) == unpack_value(value1) = unpack_value(value2)

\* re.match(pattern, string) (lines 62 and 64): the pattern is compiled first,
\* which raises TypeError for a pattern that is no text and re.error for a
\* text that is no regular expression; matching raises TypeError for a string
\* that is no text.  The patterns of the model hold no special character, so
\* a compiled pattern matches exactly the strings it is a prefix of.
re_match(pattern, string) ==
    IF ~IsText(pattern) THEN [exc |-> "TypeError", ret |-> FALSE]
    ELSE IF pattern[2] = Paren THEN [exc |-> "re.error", ret |-> FALSE]
    ELSE IF ~IsText(string) THEN [exc |-> "TypeError", ret |-> FALSE]
    ELSE [exc |-> "none", ret |-> IsPrefix(Chars(pattern[2]), Chars(string[2]))]

\* apply_operator (lines 51-73).  A TypeError of the operator is turned into a
\* ValueError (lines 70-73), every other exception leaves the function;
\* re.match(value2, value1) takes value2 as the pattern and value1 as the
\* string it is matched against.
apply_operator(value1, value2, operator) ==
    IF operator = "=="
      THEN [exc |-> "none", ret |-> PyEq(value1, value2)]
    ELSE IF operator = "!="
      THEN [exc |-> "none", ret |-> ~PyEq(value1, value2)]
    ELSE IF operator \in {"in", "not in"}
      THEN IF IsText(value1) /\ IsText(value2)
             THEN [exc |-> "none",
                   ret |-> (operator = "in") =
                             IsSubstring(Chars(value1[2]), Chars(value2[2]))]
             ELSE [exc |-> "ValueError", ret |-> FALSE]
    ELSE IF operator \in {"match", "not match"}
      THEN LET m == re_match(value2, value1)
           IN  IF m.exc = "none"
                 THEN [exc |-> "none", ret |-> (operator = "match") = m.ret]
               ELSE IF m.exc = "TypeError"
                 THEN [exc |-> "ValueError", ret |-> FALSE]
               ELSE [exc |-> m.exc, ret |-> FALSE]
    ELSE [exc |-> "ValueError", ret |-> FALSE]

\* The decision a matching rule leaves in remove_event (lines 92-101), which is
\* "None", "True" or "False"; "raise" when the chain of tests ends in its else
\* branch (line 101), as it does for every action that is not keep or set and
\* is not a remove met with remove_event None.
Decide(action, remove_event) ==
    IF action = "remove" /\ remove_event = "None" THEN "True"
    ELSE IF action = "keep" THEN "False"
    ELSE IF action = "set" THEN remove_event
    ELSE "raise"

\* The loop of filter_event (lines 78-101) from rule i on, with the event as
\* the rules before i left it and their decision remove_event.
RECURSIVE FilterFrom(_, _, _, _)
FilterFrom(event, rules, i, remove_event) ==
    IF i > Len(rules)
      THEN [exc |-> "none", ev |-> IF remove_event = "True" THEN NoEvent ELSE event]
    ELSE
      LET test == rules[i]
      IN  IF ~test.has_value
            THEN [exc |-> "ValueError", ev |-> NoEvent]
          ELSE IF test.field \notin DOMAIN event
            THEN FilterFrom(event, rules, i + 1, remove_event)
          ELSE
            LET m == apply_operator(test.value, event[test.field], test.operator)
            IN  IF m.exc # "none" THEN [exc |-> m.exc, ev |-> NoEvent]
                ELSE IF ~m.ret THEN FilterFrom(event, rules, i + 1, remove_event)
                ELSE IF Decide(test.action, remove_event) = "raise"
                  THEN [exc |-> "ValueError", ev |-> NoEvent]
                ELSE IF test.action = "set"
                  THEN FilterFrom(
                         [k \in DOMAIN event \cup {test.action_field} |->
                            IF k = test.action_field THEN test.action_value
                            ELSE event[k]],
                         rules, i + 1, remove_event)
                ELSE FilterFrom(event, rules, i + 1,
                                Decide(test.action, remove_event))

\* filter_event (lines 76-104): the event, None (NoEvent) when it is removed,
\* or the ValueError raised.
filter_event(event, rules) == FilterFrom(event, rules, 1, "None")

Rule(field, operator, value, action) ==
    [field |-> field, operator |-> operator, has_value |-> TRUE, value |-> value,
     action |-> action, action_field |-> "SUMMARY", action_value |-> str(NumVals)]

\* A rule without the key "value".
NoValueRule == [Rule("SUMMARY", "==", str(1), "remove") EXCEPT !.has_value = FALSE]

----------------------------------------------------------------------------
(* import_ics.py: process_event *)

MergeStrategies == {"MERGE_OUR", "MERGE_UPSTREAM"}

\* The hack of lines 139-141: every property that is a str (a vText is one) is
\* replaced by the plain str without its carriage returns.
StripCR(v) == IF IsText(v) THEN str(IF v[2] < 0 THEN 0 - v[2] ELSE v[2]) ELSE v

\* What parsing gives back for a property written with to_ical (lines 143-145,
\* read again at lines 121-122): a text comes back as vText; a property that
\* holds None is written through vText(None), the text "None".
FromIcal(v) == IF v = None THEN vText(0) ELSE IF IsText(v) THEN vText(v[2]) ELSE v

\* The event as lines 139-145 leave it in the cache and in the file.
Written(event) == [k \in DOMAIN event |-> FromIcal(StripCR(event[k]))]

\* Whether __merge_events__ reads the clock (line 72).
CallsNow(strat, base_event, local, upstream_ev) ==
    /\ strat \in MergeStrategies
    /\ ~(unpack_event(base_event) = unpack_event(local)
           /\ unpack_event(local) = unpack_event(upstream_ev))
    /\ "LAST-MODIFIED" \in DOMAIN base_event \cup DOMAIN local \cup DOMAIN upstream_ev

\* Event.from_ical(cache.get(uid)) (line 121): cache.get gives None for a UID
\* the cache does not hold, and parsing what is no calendar text raises
\* ValueError.
from_ical(ca) ==
    IF ca = NoFile THEN [exc |-> "ValueError", ev |-> NoEvent]
    ELSE [exc |-> "none", ev |-> ca]

\* The statements of the try block before the comparison (lines 121-127).
try_apply(strat, event, st, ca, now) ==
    LET original_version == from_ical(ca)
    IN  IF original_version.exc # "none" THEN original_version
        ELSE apply(strat, event, st, original_version.ev, now)

\* process_event without the branch of line 135.
DeletedByUser_Never(st, ca) == FALSE

\* Line 135: the file is gone and the cache still knows the UID.
DeletedByUser(st, ca) == st = NoFile /\ ca # NoFile

\* process_event (lines 107-145) for the upstream event, with the file st, the
\* cached snapshot ca, the strategy, the filter rules and the clock clk: the
\* file, snapshot and clock it leaves, and how it ended: "written",
\* "unchanged" (lines 129 and 134), "removed" (line 116), "deleted" (line
\* 136), or the name of the exception that leaves process_event.
process_event(event, st, ca, strat, rules, clk) ==
    LET f == filter_event(event, rules)
        now == clk + 1
        r == try_apply(strat, f.ev, st, ca, now)
        same(o) == [store |-> st, cache |-> ca, clock |-> clk, outcome |-> o]
        write(e, c) == [store |-> Written(e), cache |-> Written(e), clock |-> c,
                        outcome |-> "written"]
    IN  IF f.exc # "none" THEN same(f.exc)
        ELSE IF f.ev = NoEvent THEN same("removed")
        ELSE IF st # NoFile
          THEN IF r.exc = "ValueError" THEN write(f.ev, clk)
               ELSE IF r.exc # "none" THEN same(r.exc)
               ELSE IF r.ev # NoEvent /\ EventEq(r.ev, st) THEN same("unchanged")
               ELSE IF r.ev = NoEvent THEN same("unchanged")
               ELSE write(r.ev, IF CallsNow(strat, ca, st, f.ev) THEN now ELSE clk)
        ELSE IF DeletedByUser(st, ca) THEN same("deleted")
        ELSE write(f.ev, clk)

----------------------------------------------------------------------------
(* The synchronisation of one UID *)

NoTrack == <<"NoTrack", 0>>
NoResult == [exc |-> "pending", ev |-> NoEvent]

\* The properties the feed and the user change, besides the UID.
FeedProps == {"SUMMARY", "LAST-MODIFIED"}
EditProps == {"SUMMARY"}

\* What the feed can deliver for the UID: its texts may hold a carriage return,
\* its LAST-MODIFIED lies before every reading of the clock.
FeedEvents == EventsOver(FeedProps, Texts \cup {CRText(1)}, {1})

\* The filter configurations followed: none, a remove rule, a set rule.
FeedFilters ==
    { <<>>,
      <<Rule("SUMMARY", "==", str(1), "remove")>>,
      <<Rule("SUMMARY", "==", str(1), "set")>> }

\* The variables of the other specifications, at rest.
NoOperands == operand1 = None /\ operand2 = None /\ op = "=="
NoCal ==
    /\ feed = <<>> /\ pos = 1 /\ raised = "none"
    /\ folder = [u \in {} |-> NoFile] /\ project_cache = [u \in {} |-> NoFile]
NoConf == conf = <<>> /\ pc = "done" /\ projects = <<>> /\ synced = {}
SyncIdle ==
    /\ store = NoFile
    /\ cache = NoFile
    /\ upstream = [k \in {"UID"} |-> vText(1)]
    /\ strategy = "UPSTREAM"
    /\ filter_list = <<>>
    /\ clock = 1
    /\ outcome = "init"
    /\ result = NoResult
    /\ userVal = [k \in EditProps |-> NoTrack]
    /\ upKept = [k \in EditProps |-> FALSE]

Init ==
    /\ store = NoFile
    /\ cache = NoFile
    /\ upstream \in FeedEvents
    /\ strategy \in Strategies
    /\ filter_list \in FeedFilters
    /\ clock = 1
    /\ outcome = "init"
    /\ result = NoResult
    /\ userVal = [k \in EditProps |-> NoTrack]
    /\ upKept = [k \in EditProps |-> FALSE]
    /\ NoOperands /\ NoCal /\ NoConf

\* One synchronisation pass delivers the feed's event to process_event.
ProcessEvent ==
    LET res == process_event(upstream, store, cache, strategy, filter_list, clock)
    IN  /\ res.clock <= 1 + MaxNow
        /\ store' = res.store
        /\ cache' = res.cache
        /\ clock' = res.clock
        /\ outcome' = res.outcome
        /\ upKept' = IF res.outcome = "written" THEN [k \in EditProps |-> TRUE]
                     ELSE upKept
        /\ UNCHANGED <<upstream, strategy, filter_list, result, userVal>>
        /\ UNCHANGED <<opvars, calvars, raised, confvars>>

\* The user changes or removes a text property of the stored event.
UserEdit ==
    \E k \in EditProps, v \in {vText(n) : n \in Texts} \cup {None} :
        /\ store # NoFile
        /\ Get(store, k) # v
        /\ store' = IF v = None THEN [j \in DOMAIN store \ {k} |-> store[j]]
                    ELSE [j \in DOMAIN store \cup {k} |->
                            IF j = k THEN v ELSE store[j]]
        /\ userVal' = [userVal EXCEPT ![k] =
                          IF upKept[k] /\ unpack_value(Get(upstream, k))
                                            = unpack_value(Get(cache, k))
                            THEN v ELSE NoTrack]
        /\ UNCHANGED <<cache, upstream, strategy, filter_list, clock, outcome,
                       result, upKept>>
        /\ UNCHANGED <<opvars, calvars, raised, confvars>>

\* The user deletes the stored event.
UserDelete ==
    /\ store # NoFile
    /\ store' = NoFile
    /\ userVal' = [k \in EditProps |-> NoTrack]
    /\ UNCHANGED <<cache, upstream, strategy, filter_list, clock, outcome,
                   result, upKept>>
    /\ UNCHANGED <<opvars, calvars, raised, confvars>>

\* The feed changes the event it delivers.
UpstreamChange ==
    \E e \in FeedEvents :
        /\ e # upstream
        /\ upstream' = e
        /\ upKept' = [k \in EditProps |-> upKept[k] /\ Get(e, k) = Get(upstream, k)]
        /\ userVal' = [k \in EditProps |->
                         IF Get(e, k) = Get(upstream, k) THEN userVal[k] ELSE NoTrack]
        /\ UNCHANGED <<store, cache, strategy, filter_list, clock, outcome, result>>
        /\ UNCHANGED <<opvars, calvars, raised, confvars>>

Next == ProcessEvent \/ UserEdit \/ UserDelete \/ UpstreamChange

Spec == Init /\ [][Next]_vars

----------------------------------------------------------------------------
(* The three-way merge as a function: __merge_events__ applied to a base   *)
(* (cache), a local (store) and an upstream event under every strategy     *)
(* value; a strategy that is no merge strategy is the merge without a      *)
(* preference side.  The merge compares values only for equality, so base  *)
(* texts 1..NumVals-1, local texts 1..NumVals and upstream texts           *)
(* 1..NumVals+1 give every pattern of equal, different and missing values. *)

MergeKeys == TextProps \cup {"LAST-MODIFIED"}

MergeInit ==
    /\ cache \in EventsOver(MergeKeys, 1..(NumVals - 1), {1})
    /\ store \in EventsOver(MergeKeys, Texts, {1})
    /\ upstream \in EventsOver(MergeKeys, 1..(NumVals + 1), {1})
    /\ strategy \in Strategies
    /\ filter_list = <<>>
    /\ clock = 1
    /\ outcome = "init"
    /\ result = NoResult
    /\ userVal = [k \in EditProps |-> NoTrack]
    /\ upKept = [k \in EditProps |-> FALSE]
    /\ NoOperands /\ NoCal /\ NoConf

Merge ==
    /\ result = NoResult
    /\ result' = merge_events(strategy, cache, store, upstream, clock + 1)
    /\ UNCHANGED <<store, cache, upstream, strategy, filter_list, clock, outcome,
                   userVal, upKept>>
    /\ UNCHANGED <<opvars, calvars, raised, confvars>>

MergeSpec == MergeInit /\ [][Merge]_vars

----------------------------------------------------------------------------
(* Strategy NEWER: process_event on events that may carry LAST-MODIFIED    *)
(* and LAST_MODIFIED, the two names __select_newer_event__ reads.          *)

NewerEvents ==
    UNION { { e \in [{"UID"} \cup D -> {vText(1)} \cup
                                         {vDDDTypes(t) : t \in 1..(1 + MaxNow)}] :
                /\ e["UID"] = vText(1)
                /\ \A k \in D : e[k][1] = "vDDDTypes" } :
            D \in SUBSET {"LAST-MODIFIED", "LAST_MODIFIED"} }

NewerInit ==
    /\ store \in NewerEvents
    /\ cache = store
    /\ upstream \in NewerEvents
    /\ strategy = "NEWER"
    /\ filter_list = <<>>
    /\ clock = 1 + MaxNow
    /\ outcome = "init"
    /\ result = NoResult
    /\ userVal = [k \in EditProps |-> NoTrack]
    /\ upKept = [k \in EditProps |-> FALSE]
    /\ NoOperands /\ NoCal /\ NoConf

NewerSpec == NewerInit /\ [][ProcessEvent]_vars

----------------------------------------------------------------------------
(* The synchronisation with a write that fails: cache.set has saved the    *)
(* snapshot (line 143) and opening the file (line 144) raises OSError, as  *)
(* it does for a folder that does not exist or cannot be written.          *)

WriteFails ==
    LET res == process_event(upstream, store, cache, strategy, filter_list, clock)
    IN  /\ res.outcome = "written"
        /\ res.clock <= 1 + MaxNow
        /\ cache' = res.cache
        /\ clock' = res.clock
        /\ outcome' = "OSError"
        /\ userVal' = [k \in EditProps |-> NoTrack]
        /\ UNCHANGED <<store, upstream, strategy, filter_list, result, upKept>>
        /\ UNCHANGED <<opvars, calvars, raised, confvars>>

CrashNext == Next \/ WriteFails

CrashSpec == Init /\ [][CrashNext]_vars

----------------------------------------------------------------------------
(* Pass after pass with nothing else changing: the event was written once  *)
(* (file and snapshot are the event the filter let through), the user has  *)
(* or has not edited the file, the feed delivers any event, and from then  *)
(* on only synchronisation passes run.                                     *)

\* The stored event as the user may have left it: untouched, or with a
\* property of EditProps set, changed or removed.
UserEdits(st) ==
    {st} \cup
    UNION { { [j \in DOMAIN st \cup {k} |-> IF j = k THEN vText(n) ELSE st[j]] :
                n \in Texts }
            \cup { [j \in DOMAIN st \ {k} |-> st[j]] } :
            k \in EditProps }

FixInit ==
    /\ strategy \in MergeStrategies
    /\ filter_list \in FeedFilters
    /\ \E e \in FeedEvents :
          /\ filter_event(e, filter_list).exc = "none"
          /\ filter_event(e, filter_list).ev # NoEvent
          /\ cache = Written(filter_event(e, filter_list).ev)
    /\ store \in UserEdits(cache)
    /\ upstream \in FeedEvents
    /\ clock = 1
    /\ outcome = "init"
    /\ result = NoResult
    /\ userVal = [k \in EditProps |-> NoTrack]
    /\ upKept = [k \in EditProps |-> FALSE]
    /\ NoOperands /\ NoCal /\ NoConf

FixSpec == FixInit /\ [][ProcessEvent]_vars

----------------------------------------------------------------------------
(* A calendar folder that holds the event while the cache does not: the    *)
(* calendar was filled before the first run, or the cache file was removed *)
(* or could not be read (load_cache then starts from an empty cache).      *)

AdoptInit ==
    /\ store \in EventsOver(EditProps, Texts, {})
    /\ cache = NoFile
    /\ upstream \in FeedEvents
    /\ strategy \in Strategies
    /\ filter_list \in FeedFilters
    /\ clock = 1
    /\ outcome = "init"
    /\ result = NoResult
    /\ userVal = [k \in EditProps |-> NoTrack]
    /\ upKept = [k \in EditProps |-> FALSE]
    /\ NoOperands /\ NoCal /\ NoConf

AdoptNext == ProcessEvent \/ UpstreamChange

AdoptSpec == AdoptInit /\ [][AdoptNext]_vars

----------------------------------------------------------------------------
(* process_cal: one feed of two components, each a VEVENT with a UID of    *)
(* its own or a component of another kind, run after run.                  *)

UIDs == {1, 2}

\* A component that is no VEVENT (line 158).
OtherComponent == [k \in {"VTIMEZONE"} |-> None]

\* The VEVENTs with UID u: without SUMMARY, or with a SUMMARY that is an
\* ordinary text or the text "(".
CalEvents(u) ==
    { [e EXCEPT !["UID"] = vText(u)] :
        e \in EventsOver({"SUMMARY"}, {1, Paren}, {}) }

\* The filter configurations followed: none, a rule without value, a rule
\* with an unknown action, a rule whose literal is no text, a match rule.
CalFilters ==
    { <<>>,
      <<NoValueRule>>,
      <<Rule("SUMMARY", "==", str(1), "drop")>>,
      <<Rule("SUMMARY", "in", datetime(1), "remove")>>,
      <<Rule("SUMMARY", "match", str(1), "keep")>> }

\* The outcomes of process_event that are exceptions leaving it.
Exceptions == {"ValueError", "KeyError", "NotImplementedError", "re.error"}

CalInit ==
    /\ store = NoFile
    /\ cache = NoFile
    /\ upstream = [k \in {"UID"} |-> vText(1)]
    /\ strategy \in Strategies
    /\ filter_list \in CalFilters
    /\ clock = 1
    /\ outcome = "init"
    /\ result = NoResult
    /\ userVal = [k \in EditProps |-> NoTrack]
    /\ upKept = [k \in EditProps |-> FALSE]
    /\ NoOperands /\ NoConf
    /\ feed \in [1..2 -> UNION {CalEvents(u) : u \in UIDs} \cup {OtherComponent}]
    /\ \A i \in 1..2 : feed[i] # OtherComponent => feed[i]["UID"] = vText(i)
    /\ pos = 1
    /\ raised = "none"
    /\ folder = [u \in UIDs |-> NoFile]
    /\ project_cache = [u \in UIDs |-> NoFile]

\* One iteration of the loop of process_cal (lines 155-160).  An exception of
\* process_event is caught nowhere in process_cal and leaves the loop.
ProcessCalStep ==
    /\ raised = "none"
    /\ pos <= Len(feed)
    /\ IF feed[pos] = OtherComponent
         THEN /\ pos' = pos + 1
              /\ outcome' = "skipped"
              /\ UNCHANGED <<folder, project_cache, raised, clock>>
         ELSE LET uid == feed[pos]["UID"][2]
                  res == process_event(feed[pos], folder[uid], project_cache[uid],
                                       strategy, filter_list, clock)
              IN  /\ res.clock <= 1 + MaxNow
                  /\ folder' = [folder EXCEPT ![uid] = res.store]
                  /\ project_cache' = [project_cache EXCEPT ![uid] = res.cache]
                  /\ clock' = res.clock
                  /\ outcome' = res.outcome
                  /\ raised' = IF res.outcome \in Exceptions THEN res.outcome
                               ELSE "none"
                  /\ pos' = IF res.outcome \in Exceptions THEN pos ELSE pos + 1
    /\ UNCHANGED <<store, cache, upstream, strategy, filter_list, result, userVal,
                   upKept, feed>>
    /\ UNCHANGED <<opvars, confvars>>

\* The program is run again on the same feed.
NextRun ==
    /\ raised # "none" \/ pos > Len(feed)
    /\ pos' = 1
    /\ raised' = "none"
    /\ outcome' = "init"
    /\ UNCHANGED <<store, cache, upstream, strategy, filter_list, clock, result,
                   userVal, upKept, feed, folder, project_cache>>
    /\ UNCHANGED <<opvars, confvars>>

CalNext == ProcessCalStep \/ NextRun

CalSpec == CalInit /\ [][CalNext]_vars

----------------------------------------------------------------------------
(* filter_event as a function of an event and a rule list *)

FilterRules ==
    { Rule(f, o, str(1), a) : f \in TextProps, o \in {"==", "match", "not match"},
                              a \in {"remove", "keep", "set", "drop"} }
    \cup {NoValueRule}

RuleLists == UNION { [1..n -> FilterRules] : n \in 0..MaxRules }

FilterInit ==
    /\ store = NoFile
    /\ cache = NoFile
    /\ upstream \in EventsOver(TextProps, Texts, {})
    /\ strategy = "UPSTREAM"
    /\ filter_list \in RuleLists
    /\ clock = 1
    /\ outcome = "init"
    /\ result = NoResult
    /\ userVal = [k \in EditProps |-> NoTrack]
    /\ upKept = [k \in EditProps |-> FALSE]
    /\ NoOperands /\ NoCal /\ NoConf

Filter ==
    /\ result = NoResult
    /\ result' = filter_event(upstream, filter_list)
    /\ UNCHANGED <<store, cache, upstream, strategy, filter_list, clock, outcome,
                   userVal, upKept>>
    /\ UNCHANGED <<opvars, calvars, raised, confvars>>

FilterSpec == FilterInit /\ [][Filter]_vars

----------------------------------------------------------------------------
(* apply_operator as a function of two values and an operator string *)

Operators == {"==", "!=", "in", "not in", "match", "not match"}

\* The operands followed: texts (one of them no regular expression), a
\* library text, a date-time and None.
Operands == {str(n) : n \in Texts} \cup {str(Paren), vText(1), datetime(1), None}

OperatorInit ==
    /\ SyncIdle
    /\ operand1 \in Operands
    /\ operand2 \in Operands
    /\ op \in Operators \cup {"<"}
    /\ NoCal /\ NoConf

ApplyOperator ==
    /\ result = NoResult
    /\ result' = apply_operator(operand1, operand2, op)
    /\ UNCHANGED <<store, cache, upstream, strategy, filter_list, clock, outcome,
                   userVal, upKept>>
    /\ UNCHANGED <<opvars, calvars, raised, confvars>>

OperatorSpec == OperatorInit /\ [][ApplyOperator]_vars

----------------------------------------------------------------------------
(* Config.__init__ and main: the projects of the configuration file are    *)
(* loaded in order, then synchronised in order.  conf holds, per project,  *)
(* the value of its key strategy, or Missing when it has none.             *)

StrategyNames == {"our", "upstream", "newer", "merge,our", "merge,upstream"}

Missing == "<missing>"

\* MergeStrategy.__init__ (lines 35-48) on a value already lower-cased and
\* stripped.
MergeStrategy(value) ==
    IF value = "our" THEN [exc |-> "none", strategy |-> "OUR"]
    ELSE IF value = "upstream" THEN [exc |-> "none", strategy |-> "UPSTREAM"]
    ELSE IF value = "newer" THEN [exc |-> "none", strategy |-> "NEWER"]
    ELSE IF value = "merge,our" THEN [exc |-> "none", strategy |-> "MERGE_OUR"]
    ELSE IF value = "merge,upstream"
      THEN [exc |-> "none", strategy |-> "MERGE_UPSTREAM"]
    ELSE [exc |-> "ValueError", strategy |-> "none"]

ConfInit ==
    /\ SyncIdle
    /\ NoOperands
    /\ feed = <<>> /\ pos = 1 /\ raised = "none"
    /\ folder = [u \in {} |-> NoFile] /\ project_cache = [u \in {} |-> NoFile]
    /\ conf \in UNION { [1..n -> StrategyNames \cup {"bogus", Missing}] :
                          n \in 1..MaxProjects }
    /\ pc = "config"
    /\ projects = <<>>
    /\ synced = {}

\* One iteration of the loop of Config.__init__ (lines 201-213): a missing key
\* is a KeyError, answered by sys.exit(2); the ValueError of MergeStrategy is
\* not caught and leaves Config() and main.
LoadProject ==
    /\ pc = "config"
    /\ Len(projects) < Len(conf)
    /\ LET p_strategy == conf[Len(projects) + 1]
           ms == MergeStrategy(p_strategy)
       IN  IF p_strategy = Missing
             THEN pc' = "raised" /\ raised' = "SystemExit" /\ UNCHANGED projects
           ELSE IF ms.exc # "none"
             THEN pc' = "raised" /\ raised' = ms.exc /\ UNCHANGED projects
           ELSE /\ projects' = Append(projects, ms.strategy)
                /\ UNCHANGED <<pc, raised>>
    /\ UNCHANGED <<conf, synced>>
    /\ UNCHANGED <<syncvars, opvars, calvars>>

\* Config() returns (line 218).
ConfigLoaded ==
    /\ pc = "config"
    /\ Len(projects) = Len(conf)
    /\ pc' = "main"
    /\ UNCHANGED <<conf, projects, synced, raised>>
    /\ UNCHANGED <<syncvars, opvars, calvars>>

\* One iteration of the loop of main (lines 219-240): process_cal is called
\* for the next project.
SyncProject ==
    /\ pc = "main"
    /\ Cardinality(synced) < Len(projects)
    /\ synced' = synced \cup {Cardinality(synced) + 1}
    /\ pc' = IF Cardinality(synced) + 1 = Len(projects) THEN "done" ELSE "main"
    /\ UNCHANGED <<conf, projects, raised>>
    /\ UNCHANGED <<syncvars, opvars, calvars>>

ConfNext == LoadProject \/ ConfigLoaded \/ SyncProject

ConfSpec == ConfInit /\ [][ConfNext]_vars

----------------------------------------------------------------------------
(* Properties of the three-way merge (MergeSpec) *)

MergeDone == result.exc # "pending"

\* The canonical values of property k in base, local and upstream.
BaseVal(k) == unpack_value(Get(cache, k))
LocalVal(k) == unpack_value(Get(store, k))
UpstreamVal(k) == unpack_value(Get(upstream, k))

\* Event m holds for k exactly what event ev holds: the same value, or neither
\* carries k.
SameAs(m, ev, k) ==
    /\ k \in DOMAIN m <=> k \in DOMAIN ev
    /\ unpack_value(Get(m, k)) = unpack_value(Get(ev, k))

OnlyLocalChanged(k) == LocalVal(k) # BaseVal(k) /\ UpstreamVal(k) = BaseVal(k)
OnlyUpstreamChanged(k) == UpstreamVal(k) # BaseVal(k) /\ LocalVal(k) = BaseVal(k)

\* Local and upstream hold different values for k and both differ from base.
Conflict(k) ==
    /\ LocalVal(k) # UpstreamVal(k)
    /\ LocalVal(k) # BaseVal(k)
    /\ UpstreamVal(k) # BaseVal(k)

PreferredSide == IF strategy = "MERGE_OUR" THEN store ELSE upstream

\* C2: under a merge strategy every property in conflict (its values in local
\* and upstream, missing ones included, differ from each other and from base)
\* comes out of the merge as the preferred side holds it: local's under
\* MERGE_OUR, upstream's under MERGE_UPSTREAM, left out when that side does not
\* carry it.
C2_ConflictFollowsPreference ==
    (MergeDone /\ strategy \in MergeStrategies) =>
        \A k \in TextProps :
            Conflict(k) => result.exc = "none" /\ SameAs(result.ev, PreferredSide, k)

\* C3: without a preference side, a property that local and upstream both
\* changed to different values makes the merge fail with the ValueError the
\* tests expect, and no merged event is returned.
C3_NoPreferenceRaisesValueError ==
    (/\ MergeDone
     /\ strategy \notin MergeStrategies
     /\ \E k \in TextProps :
           Conflict(k) /\ k \in DOMAIN store /\ k \in DOMAIN upstream)
        => result.exc = "ValueError" /\ result.ev = NoEvent

\* C4: a property other than LAST-MODIFIED that exactly one side changed comes
\* out of the merge as that side holds it (left out when that side removed
\* it); an error is raised only for another property that is in conflict, and
\* never under a merge strategy.
C4_OneSidedChangePassesThrough ==
    MergeDone =>
        /\ \A k \in TextProps \cup {"UID"} :
              /\ (result.exc = "none" /\ OnlyLocalChanged(k))
                    => SameAs(result.ev, store, k)
              /\ (result.exc = "none" /\ OnlyUpstreamChanged(k))
                    => SameAs(result.ev, upstream, k)
        /\ result.exc # "none" =>
              /\ strategy \notin MergeStrategies
              /\ \E k \in TextProps : Conflict(k)

\* C4's case: local removed SUMMARY, upstream changed LOCATION, merged.
C4_Witness ==
    /\ MergeDone
    /\ result.exc = "none"
    /\ OnlyLocalChanged("SUMMARY") /\ "SUMMARY" \notin DOMAIN store
    /\ OnlyUpstreamChanged("LOCATION") /\ "LOCATION" \in DOMAIN upstream

\* C5: under a merge strategy a property that local and upstream changed to the
\* same value (or both removed) comes out of the merge as local holds it - left
\* out, not present with a null value, when both removed it.
C5_IdenticalChangeKept ==
    (MergeDone /\ strategy \in MergeStrategies) =>
        \A k \in TextProps :
            (LocalVal(k) = UpstreamVal(k) /\ LocalVal(k) # BaseVal(k))
                => result.exc = "none" /\ SameAs(result.ev, store, k)

\* Over the properties K, local and upstream changed disjoint sets of
\* properties, each change an addition or an edit.
DisjointEdits(K) ==
    \A k \in K :
        /\ ~(LocalVal(k) # BaseVal(k) /\ UpstreamVal(k) # BaseVal(k))
        /\ LocalVal(k) # BaseVal(k) => k \in DOMAIN store
        /\ UpstreamVal(k) # BaseVal(k) => k \in DOMAIN upstream

\* The merge raised nothing and every property of K holds the value of the side
\* that changed it, or base's when no side did.
MergedSideBySide(K) ==
    /\ result.exc = "none"
    /\ \A k \in K :
          SameAs(result.ev,
                 IF LocalVal(k) # BaseVal(k) THEN store
                 ELSE IF UpstreamVal(k) # BaseVal(k) THEN upstream
                 ELSE cache,
                 k)

\* C6 as stated: when local and upstream add or edit disjoint sets of
\* properties, the merged event holds local's value for local's properties,
\* upstream's for upstream's and base's for every untouched property, and no
\* conflict is raised - LAST-MODIFIED included.
C6_DisjointEditsAllProps ==
    (MergeDone /\ strategy \in MergeStrategies /\ DisjointEdits(MergeKeys \cup {"UID"}))
        => MergedSideBySide(MergeKeys \cup {"UID"})

\* C6 amended: the same for the properties other than LAST-MODIFIED.
C6_DisjointEdits ==
    (MergeDone /\ DisjointEdits(TextProps \cup {"UID"}))
        => MergedSideBySide(TextProps \cup {"UID"})

\* C6's case: local changed SUMMARY, upstream changed LOCATION, UID untouched.
C6_Witness ==
    /\ MergeDone
    /\ DisjointEdits(TextProps \cup {"UID"})
    /\ OnlyLocalChanged("SUMMARY")
    /\ OnlyUpstreamChanged("LOCATION")
    /\ "UID" \in DOMAIN result.ev

----------------------------------------------------------------------------
(* Properties of the synchronisation (Spec) *)

\* C1: under a merge strategy, a property the user changed in the stored event
\* keeps the user's value after every synchronisation pass, as long as the
\* feed has kept that property at the value it had when the event was last
\* written (userVal follows exactly these standing edits).
C1_UserEditSurvives ==
    strategy \in MergeStrategies =>
        \A k \in EditProps :
            userVal[k] # NoTrack =>
                /\ store # NoFile
                /\ k \in DOMAIN store <=> userVal[k] # None
                /\ Get(store, k) = userVal[k]

\* The event process_event hands to the strategy: the feed's event after the
\* filter.
Filtered == filter_event(upstream, filter_list)

\* C7: when the cached ancestor, the stored event and the event handed to the
\* strategy are the same event, a pass raises no error and changes neither the
\* file nor the cache, under every strategy.
C7_NoOpResolve ==
    [][(/\ ProcessEvent
        /\ store # NoFile
        /\ EventEq(cache, store)
        /\ Filtered.exc = "none"
        /\ Filtered.ev # NoEvent
        /\ EventEq(Filtered.ev, store))
          => (outcome' = "unchanged" /\ store' = store /\ cache' = cache)]_vars

----------------------------------------------------------------------------
(* Strategy NEWER (NewerSpec) *)

\* C8: under NEWER, when the stored and the upstream event both carry
\* LAST-MODIFIED, a pass ends without error: it writes upstream when
\* upstream's LAST-MODIFIED is strictly later and changes nothing otherwise.
C8_NewerWins ==
    [][(/\ ProcessEvent
        /\ strategy = "NEWER"
        /\ store # NoFile
        /\ "LAST-MODIFIED" \in DOMAIN store
        /\ "LAST-MODIFIED" \in DOMAIN upstream)
          => IF store["LAST-MODIFIED"][2] < upstream["LAST-MODIFIED"][2]
               THEN outcome' = "written" /\ store' = Written(upstream)
               ELSE outcome' = "unchanged" /\ store' = store]_vars

----------------------------------------------------------------------------
(* The filter (FilterSpec) *)

FilterDone == result.exc # "pending"

\* Rule i of the list matches the event.
Matches(i) ==
    /\ filter_list[i].has_value
    /\ filter_list[i].field \in DOMAIN upstream
    /\ apply_operator(filter_list[i].value, upstream[filter_list[i].field],
                      filter_list[i].operator).ret

\* C10: an event that a keep rule matches is retained without error, wherever
\* the keep rule stands among the matching remove rules (stated for the lists
\* of remove and keep rules that all have a value).
C10_KeepWins ==
    (/\ FilterDone
     /\ \A i \in DOMAIN filter_list :
           filter_list[i].has_value /\ filter_list[i].action \in {"remove", "keep"}
     /\ \E i \in DOMAIN filter_list : filter_list[i].action = "keep" /\ Matches(i))
        => result.exc = "none" /\ result.ev = upstream

\* The rule literal, taken as a pattern, matches a prefix of the value the
\* event holds for the rule's field.
LiteralMatchesField(test) ==
    IsPrefix(Chars(test.value[2]), Chars(upstream[test.field][2]))

\* C11: a single remove rule with operator match removes the event exactly
\* when the rule's literal, as a pattern, matches a prefix of the event's field
\* value; with operator not match exactly when it does not.
C11_LiteralIsPattern ==
    (/\ FilterDone
     /\ Len(filter_list) = 1
     /\ filter_list[1].has_value
     /\ filter_list[1].action = "remove"
     /\ filter_list[1].operator \in {"match", "not match"}
     /\ filter_list[1].field \in DOMAIN upstream)
        => /\ result.exc = "none"
           /\ result.ev = NoEvent <=>
                 ((filter_list[1].operator = "match")
                     = LiteralMatchesField(filter_list[1]))

\* C17: when two rules match and the second is a remove rule, the second
\* leaves the decision of the first (remove or keep) as it is and raises
\* nothing: the event is dropped exactly when the first rule was a remove.
C17_RemoveOnlyWhenUndecided ==
    (/\ FilterDone
     /\ Len(filter_list) = 2
     /\ Matches(1) /\ Matches(2)
     /\ filter_list[1].action \in {"remove", "keep"}
     /\ filter_list[2].action = "remove")
        => /\ result.exc = "none"
           /\ result.ev = NoEvent <=> filter_list[1].action = "remove"

----------------------------------------------------------------------------
(* apply_operator (OperatorSpec) *)

ApplyDone == result.exc # "pending"

\* C12: apply_operator ends in one of two ways: it returns a boolean, which it
\* does only for one of the six operators, or it raises ValueError; no other
\* exception leaves it.
C12_BooleanOrValueError ==
    ApplyDone =>
        /\ result.exc \in {"none", "ValueError"}
        /\ result.exc = "none" => (op \in Operators /\ result.ret \in BOOLEAN)

----------------------------------------------------------------------------
(* A folder that holds the event without a cached snapshot (AdoptSpec) *)

\* The try block of process_event ends in the handler of line 130.
MergeErrorCaught ==
    /\ store # NoFile
    /\ Filtered.exc = "none"
    /\ Filtered.ev # NoEvent
    /\ try_apply(strategy, Filtered.ev, store, cache, clock + 1).exc = "ValueError"

\* C14: a pass whose try block fails with the caught ValueError leaves the
\* stored event and the cached snapshot as they were.
C14_CaughtErrorSkipsEvent ==
    [][(ProcessEvent /\ MergeErrorCaught)
          => (store' = store /\ cache' = cache)]_vars

\* C15: under strategy OUR a pass on a UID that has a file changes neither the
\* file nor the cached snapshot.
C15_OurKeepsLocal ==
    [][(ProcessEvent /\ strategy = "OUR" /\ store # NoFile)
          => (store' = store /\ cache' = cache)]_vars

----------------------------------------------------------------------------
(* process_cal (CalSpec) *)

\* C13: an exception raised while one VEVENT is processed does not keep
\* process_cal from the VEVENTs after it: the loop is never left by an
\* exception while a VEVENT of the feed is still to come.
C13_FailureConfined ==
    raised # "none" =>
        \A i \in (pos + 1)..Len(feed) : feed[i] = OtherComponent

----------------------------------------------------------------------------
(* Config and main (ConfSpec) *)

\* C16: an unknown strategy string is rejected while the configuration is
\* loaded, and when the run has ended with that rejection every project whose
\* strategy string is known has been synchronised.
C16_UnknownStrategyConfined ==
    /\ \A i \in DOMAIN projects : conf[i] \in StrategyNames
    /\ (pc = "raised" /\ raised = "ValueError") =>
          \A i \in DOMAIN conf : conf[i] \in StrategyNames => i \in synced

----------------------------------------------------------------------------
(* The synchronisation with a failing write (CrashSpec) *)

\* C18: every step that changes the cached snapshot of the UID leaves the
\* file holding that same event, so a later merge never starts from a snapshot
\* that differs from the event last written to the file.
C18_WriteIsAtomic ==
    [][cache' # cache => store' = cache']_vars

----------------------------------------------------------------------------
(* Pass after pass (FixSpec) *)

\* C19: under a merge strategy, once one pass has run and neither the feed's
\* event nor the file has changed since, a pass writes nothing: it leaves the
\* file and the cached snapshot as they are.
C19_FixedPoint ==
    [][(ProcessEvent /\ outcome # "init" /\ strategy \in MergeStrategies)
          => (outcome' # "written" /\ store' = store /\ cache' = cache)]_vars

====
